---- MODULE Spec2Model ----
(***************************************************************************)
(* Scan lifecycle of NFCReaderScreen (src/screens/NFCReaderScreen.tsx).    *)
(*                                                                         *)
(* The component holds four pieces of React state (isScanning,             *)
(* nfcSupported, cardData, error) and talks to NfcManager through five     *)
(* asynchronous calls.  JavaScript runs every synchronous block to         *)
(* completion, so one action of this model is one such block: a press      *)
(* handler up to its first await, or the continuation of an await up to    *)
(* the next one, entered when NfcManager settles the awaited promise, which *)
(* it may do in any order.  Every startScan call is a separate activation   *)
(* ("attempt") with its own position pc[i] and locals tag[i], parsed[i].   *)
(***************************************************************************)
EXTENDS Naturals, Sequences, FiniteSets

\* ---------------------------------------------------------------- bounds
\* startScan invocations followed in one lifetime of the screen
MaxAttempts == 2
\* longest tag identifier drawn for the parser
MaxIdLen == 5

Attempts == 1..MaxAttempts

\* ------------------------------------------------------- optional values
\* null / undefined of the source
None == [has |-> FALSE]
Some(x) == [has |-> TRUE, v |-> x]

\* a string of the source is the sequence of its characters
Chars(n, c) == [k \in 1..n |-> c]

VARIABLES
    mounted,       \* the component is mounted (between mount and unmount cleanup)
    isScanning,    \* useState<boolean>(false)
    nfcSupported,  \* useState<boolean>(true)
    cardData,      \* useState<CardData | null>(null)
    error,         \* useState<string | null>(null)
    probePc,       \* position of checkNfcSupport
    supported,     \* the local `supported` of checkNfcSupport (None until it is set)
    nfcStarted,    \* NfcManager.start() has completed successfully
    nAttempts,     \* startScan activations that passed the support guard
    pc,            \* pc[i]: position of activation i of startScan
    tag,           \* tag[i]: the local `tag` of activation i
    parsed,        \* parsed[i]: the local `parsedData` of activation i
    outcome,       \* outcome[i]: which branch activation i took
    relCalls,      \* relCalls[i]: cancelTechnologyRequest calls made for attempt i
    cancelled,     \* cancelled[i]: cancelScan ran while attempt i was scanning
    tornDown,      \* tornDown[i]: the unmount cleanup ran while attempt i was scanning
    pendingRel,    \* cancelTechnologyRequest calls of cancelScan/unmount still in flight
    held,          \* requestTechnology issued, no cancelTechnologyRequest completed since
    reqCalls,      \* NfcManager.requestTechnology calls issued so far
    lateAlert,     \* a Success / Scan Failed alert was raised after unmount
    lateSets,      \* setIsScanning, setError or setCardData was called after unmount
    releaseFailed  \* some cancelTechnologyRequest call threw

vars == <<mounted, isScanning, nfcSupported, cardData, error, probePc, supported,
          nfcStarted,
          nAttempts, pc, tag, parsed, outcome, relCalls, cancelled, tornDown,
          pendingRel, held, reqCalls, lateAlert, lateSets, releaseFailed>>

ctlVars == <<probePc, supported, nfcStarted>>
attemptVars == <<nAttempts, pc, tag, parsed, outcome, cancelled, tornDown, reqCalls>>

\* ------------------------------------------------------------ tag parser
\* characters an identifier is drawn from
IdAlphabet == {"A", "7"}
Ids == UNION {[1..n -> IdAlphabet] : n \in 0..MaxIdLen}
TechLists == {<<>>, <<"IsoDep">>, <<"IsoDep", "NfcA">>, <<"NfcA", "NfcA">>}
TypeLabels == {"", "ISO14443"}

\* TagEvent records as the hardware may deliver them: every field optional
RawTags == [id : {None} \cup {Some(x) : x \in Ids},
            techTypes : {None} \cup {Some(x) : x \in TechLists},
            type : {None} \cup {Some(x) : x \in TypeLabels}]

\* the tags the lifecycle model lets getTag() deliver
LongIdTag == [id |-> Some(<<"7", "A", "7", "A", "A">>), techTypes |-> Some(<<"IsoDep">>),
              type |-> Some("ISO14443")]
ScanTags == {LongIdTag}

\* JavaScript truthiness of an optional string given as a character sequence
TruthySeq(o) == o.has /\ Len(o.v) > 0
\* JavaScript truthiness of an optional string given as an atom
TruthyStr(o) == o.has /\ o.v # ""

\* a slip in the slice: id.slice(0, 4), the first four characters
LastFour_FirstFour(id) == IF Len(id) > 4 THEN SubSeq(id, 1, 4) ELSE id

\* id.slice(-4)
LastFour(id) == IF Len(id) > 4 THEN SubSeq(id, Len(id) - 3, Len(id)) ELSE id

StarsOnly == Chars(4, "*")
MaskPrefix == <<"*", "*", "*", "*", " ", "*", "*", "*", "*", " ", "*", "*", "*", "*", " ">>
NotAvailable == <<"N", "/", "A">>

maskCardNumber(id) ==
    IF ~TruthySeq(id) THEN StarsOnly
    ELSE MaskPrefix \o LastFour(id.v)

\* a slip in the parser: tag.id is copied without its || 'N/A' default
parseCardData_NoIdDefault(t) ==
    [id |-> IF t.id.has THEN t.id.v ELSE <<>>,
     techTypes |-> IF t.techTypes.has THEN t.techTypes.v ELSE <<>>,
     type |-> IF TruthyStr(t.type) THEN t.type.v ELSE "Unknown",
     cardNumber |-> maskCardNumber(t.id),
     scannedAt |-> "now"]

\* scannedAt is the wall clock at parse time; no claim reads it
parseCardData(t) ==
    [id |-> IF TruthySeq(t.id) THEN t.id.v ELSE NotAvailable,
     techTypes |-> IF t.techTypes.has THEN t.techTypes.v ELSE <<>>,
     type |-> IF TruthyStr(t.type) THEN t.type.v ELSE "Unknown",
     cardNumber |-> maskCardNumber(t.id),
     scannedAt |-> "now"]

\* err instanceof Error ? err.message : 'Failed to read NFC tag'
Thrown == {[isError |-> TRUE, message |-> "hardware"],
           [isError |-> FALSE, message |-> ""]}
errorMessage(e) == IF e.isError THEN e.message ELSE "Failed to read NFC tag"

\* ------------------------------------------------------------- lifecycle
Init ==
    /\ mounted = TRUE
    /\ isScanning = FALSE
    /\ nfcSupported = TRUE
    /\ cardData = None
    /\ error = None
    /\ probePc = "isSupported"
    /\ supported = None
    /\ nfcStarted = FALSE
    /\ nAttempts = 0
    /\ pc = [i \in Attempts |-> "none"]
    /\ tag = [i \in Attempts |-> None]
    /\ parsed = [i \in Attempts |-> None]
    /\ outcome = [i \in Attempts |-> "none"]
    /\ relCalls = [i \in Attempts |-> 0]
    /\ cancelled = [i \in Attempts |-> FALSE]
    /\ tornDown = [i \in Attempts |-> FALSE]
    /\ pendingRel = 0
    /\ held = FALSE
    /\ reqCalls = 0
    /\ lateAlert = FALSE
    /\ lateSets = FALSE
    /\ releaseFailed = FALSE

\* a state setter of an unmounted component changes nothing
SetState(cur, new) == IF mounted THEN new ELSE cur
\* a call of setIsScanning, setError or setCardData, noted when it comes late
SetterCalled == lateSets' = (lateSets \/ ~mounted)

\* the attempt the Cancel button and the scanning indicator belong to
Current == nAttempts

\* checkNfcSupport: isSupported() resolved with s
IsSupportedResolves(s) ==
    /\ probePc = "isSupported"
    /\ supported' = Some(s)
    /\ nfcSupported' = SetState(nfcSupported, s)
    /\ probePc' = IF s THEN "start" ELSE "done"
    /\ UNCHANGED <<mounted, isScanning, cardData, error, nfcStarted, attemptVars,
                   relCalls, pendingRel, held, lateAlert, lateSets, releaseFailed>>

\* checkNfcSupport: isSupported() threw
IsSupportedThrows ==
    /\ probePc = "isSupported"
    /\ nfcSupported' = SetState(nfcSupported, FALSE)
    /\ probePc' = "done"
    /\ UNCHANGED <<mounted, isScanning, cardData, error, supported, nfcStarted,
                   attemptVars, relCalls, pendingRel, held, lateAlert, lateSets,
                   releaseFailed>>

\* checkNfcSupport: NfcManager.start() resolved
NfcStartResolves ==
    /\ probePc = "start"
    /\ probePc' = "done"
    /\ nfcStarted' = TRUE
    /\ UNCHANGED <<mounted, isScanning, nfcSupported, cardData, error, supported,
                   attemptVars,
                   relCalls, pendingRel, held, lateAlert, lateSets,
                   releaseFailed>>

\* a slip in the catch block: the error is logged and nfcSupported is left alone
NfcStartThrows_LogOnly ==
    /\ probePc = "start"
    /\ probePc' = "done"
    /\ UNCHANGED <<mounted, isScanning, nfcSupported, cardData, error, supported,
                   nfcStarted, attemptVars, relCalls, pendingRel, held, lateAlert,
                   lateSets, releaseFailed>>

\* checkNfcSupport: NfcManager.start() threw
NfcStartThrows ==
    /\ probePc = "start"
    /\ probePc' = "done"
    /\ nfcSupported' = SetState(nfcSupported, FALSE)
    /\ UNCHANGED <<mounted, isScanning, cardData, error, supported, nfcStarted,
                   attemptVars, relCalls, pendingRel, held, lateAlert, lateSets,
                   releaseFailed>>

\* what the render offers: the Start button (isScanning false) or the Cancel
\* button (isScanning true), and neither once nfcSupported is false
StartOffered == mounted /\ nfcSupported /\ ~isScanning
CancelOffered == mounted /\ nfcSupported /\ isScanning

\* a slip in startScan: the previous outcome is not reset
StartPressed_KeepsOutcome ==
    /\ StartOffered
    /\ nAttempts < MaxAttempts
    /\ nfcSupported
    /\ isScanning' = TRUE
    /\ nAttempts' = nAttempts + 1
    /\ pc' = [pc EXCEPT ![nAttempts + 1] = "waitReq"]
    /\ reqCalls' = reqCalls + 1
    /\ held' = TRUE
    /\ UNCHANGED <<mounted, nfcSupported, error, cardData, ctlVars, tag, parsed,
                   outcome, relCalls, cancelled, tornDown, pendingRel, lateAlert,
                   lateSets, releaseFailed>>

\* startScan up to its first await: the guard on nfcSupported, the reset of the
\* previous outcome and the call of NfcManager.requestTechnology
StartPressed ==
    /\ StartOffered
    /\ nAttempts < MaxAttempts
    /\ nfcSupported
    /\ isScanning' = TRUE
    /\ error' = None
    /\ cardData' = None
    /\ nAttempts' = nAttempts + 1
    /\ pc' = [pc EXCEPT ![nAttempts + 1] = "waitReq"]
    /\ reqCalls' = reqCalls + 1
    /\ held' = TRUE
    /\ UNCHANGED <<mounted, nfcSupported, ctlVars, tag, parsed, outcome, relCalls,
                   cancelled, tornDown, pendingRel, lateAlert, lateSets,
                   releaseFailed>>

\* a slip in the guard of startScan: the call goes on to requestTechnology
StartRefused_Proceeds ==
    /\ mounted
    /\ ~nfcSupported
    /\ nAttempts < MaxAttempts
    /\ isScanning' = TRUE
    /\ error' = None
    /\ cardData' = None
    /\ nAttempts' = nAttempts + 1
    /\ pc' = [pc EXCEPT ![nAttempts + 1] = "waitReq"]
    /\ reqCalls' = reqCalls + 1
    /\ held' = TRUE
    /\ UNCHANGED <<mounted, nfcSupported, ctlVars, tag, parsed, outcome, relCalls,
                   cancelled, tornDown, pendingRel, lateAlert, lateSets,
                   releaseFailed>>

\* startScan called while nfcSupported is false: the guard raises the Error
\* alert and returns.  The render offers no Start button in that state, so
\* this is the branch a direct call of startScan meets; it changes no state.
StartRefused ==
    /\ mounted
    /\ ~nfcSupported
    /\ UNCHANGED vars

\* cancelScan up to its await: setIsScanning(false), then cleanUpNfc calls
\* NfcManager.cancelTechnologyRequest
CancelPressed ==
    /\ CancelOffered
    /\ isScanning' = FALSE
    /\ pendingRel' = pendingRel + 1
    /\ relCalls' = [relCalls EXCEPT ![Current] = @ + 1]
    /\ cancelled' = [cancelled EXCEPT ![Current] = TRUE]
    /\ UNCHANGED <<mounted, nfcSupported, cardData, error, ctlVars, nAttempts, pc, tag,
                   parsed, outcome, tornDown, held, reqCalls, lateAlert,
                   lateSets, releaseFailed>>

\* the cleanup of the mount effect: cleanUpNfc calls cancelTechnologyRequest
Unmount ==
    /\ mounted
    /\ mounted' = FALSE
    /\ pendingRel' = pendingRel + 1
    /\ relCalls' = IF isScanning THEN [relCalls EXCEPT ![Current] = @ + 1] ELSE relCalls
    /\ tornDown' = IF isScanning THEN [tornDown EXCEPT ![Current] = TRUE] ELSE tornDown
    /\ UNCHANGED <<isScanning, nfcSupported, cardData, error, ctlVars, nAttempts, pc,
                   tag, parsed, outcome, cancelled, held, reqCalls, lateAlert,
                   lateSets, releaseFailed>>

\* The promise of requestTechnology resolves (a tag is in the field) and
\* startScan resumes in the same turn of the event loop: it calls
\* NfcManager.getTag
RequestReturns(i) ==
    /\ pc[i] = "waitReq"
    /\ pc' = [pc EXCEPT ![i] = "waitTag"]
    /\ UNCHANGED <<mounted, isScanning, nfcSupported, cardData, error, ctlVars,
                   nAttempts, tag, parsed, outcome, relCalls, cancelled, tornDown,
                   pendingRel, held, reqCalls, lateAlert, lateSets,
                   releaseFailed>>

\* a slip in the finally block: setIsScanning(false) without the cleanUpNfc call
Finally_NoRelease(i) ==
    /\ isScanning' = SetState(isScanning, FALSE)
    /\ SetterCalled
    /\ relCalls' = relCalls
    /\ pc' = [pc EXCEPT ![i] = "waitCleanup"]

\* the finally block of startScan up to its await: setIsScanning(false), then
\* cleanUpNfc calls NfcManager.cancelTechnologyRequest
Finally(i) ==
    /\ isScanning' = SetState(isScanning, FALSE)
    /\ SetterCalled
    /\ relCalls' = [relCalls EXCEPT ![i] = @ + 1]
    /\ pc' = [pc EXCEPT ![i] = "waitCleanup"]

\* the catch block of startScan: setError and the Scan Failed alert
Catch(i, e) ==
    /\ error' = SetState(error, Some(errorMessage(e)))
    /\ lateAlert' = (lateAlert \/ ~mounted)
    /\ outcome' = [outcome EXCEPT ![i] = "error"]

\* The promise of requestTechnology rejects with e (a hardware error, or the
\* request was aborted by a cancelTechnologyRequest) and startScan resumes in
\* the same turn of the event loop: catch, then finally
RequestThrows(i, e) ==
    /\ pc[i] = "waitReq"
    /\ Catch(i, e)
    /\ Finally(i)
    /\ UNCHANGED <<mounted, nfcSupported, cardData, ctlVars, nAttempts, tag, parsed,
                   cancelled, tornDown, pendingRel, held, reqCalls, releaseFailed>>

\* startScan resumes after getTag with t (None is null): parse and publish the
\* tag when there is one, then finally
GetTagReturns(i, t) ==
    /\ pc[i] = "waitTag"
    /\ tag' = [tag EXCEPT ![i] = t]
    /\ IF t.has
         THEN /\ parsed' = [parsed EXCEPT ![i] = Some(parseCardData(t.v))]
              /\ cardData' = SetState(cardData, Some(parseCardData(t.v)))
              /\ lateAlert' = (lateAlert \/ ~mounted)
              /\ outcome' = [outcome EXCEPT ![i] = "tag"]
         ELSE /\ outcome' = [outcome EXCEPT ![i] = "empty"]
              /\ UNCHANGED <<parsed, cardData, lateAlert>>
    /\ Finally(i)
    /\ UNCHANGED <<mounted, nfcSupported, error, ctlVars, nAttempts, cancelled,
                   tornDown, pendingRel, held, reqCalls, releaseFailed>>

\* startScan resumes from a rejected getTag: catch, then finally
GetTagThrows(i, e) ==
    /\ pc[i] = "waitTag"
    /\ Catch(i, e)
    /\ Finally(i)
    /\ UNCHANGED <<mounted, nfcSupported, cardData, ctlVars, nAttempts, tag, parsed,
                   cancelled, tornDown, pendingRel, held, reqCalls, releaseFailed>>

\* a cancelTechnologyRequest call settles: access is released when it resolves,
\* and cleanUpNfc swallows the error when it throws
Released(ok) == IF ok THEN FALSE ELSE held

\* a slip in cleanUpNfc: the error of cancelTechnologyRequest reaches setError
CleanupReturns_Surfaces(i, ok) ==
    /\ pc[i] = "waitCleanup"
    /\ pc' = [pc EXCEPT ![i] = "done"]
    /\ held' = Released(ok)
    /\ releaseFailed' = (releaseFailed \/ ~ok)
    /\ error' = IF ok THEN error ELSE SetState(error, Some("Cleanup error"))
    /\ UNCHANGED <<mounted, isScanning, nfcSupported, cardData, ctlVars,
                   nAttempts, tag, parsed, outcome, relCalls, cancelled, tornDown,
                   pendingRel, reqCalls, lateAlert, lateSets>>

\* cleanUpNfc of the finally block returns; startScan ends
CleanupReturns(i, ok) ==
    /\ pc[i] = "waitCleanup"
    /\ pc' = [pc EXCEPT ![i] = "done"]
    /\ held' = Released(ok)
    /\ releaseFailed' = (releaseFailed \/ ~ok)
    /\ UNCHANGED <<mounted, isScanning, nfcSupported, cardData, error, ctlVars,
                   nAttempts, tag, parsed, outcome, relCalls, cancelled, tornDown,
                   pendingRel, reqCalls, lateAlert, lateSets>>

\* cleanUpNfc of cancelScan or of the unmount cleanup returns
ReleaseReturns(ok) ==
    /\ pendingRel > 0
    /\ pendingRel' = pendingRel - 1
    /\ held' = Released(ok)
    /\ releaseFailed' = (releaseFailed \/ ~ok)
    /\ UNCHANGED <<mounted, isScanning, nfcSupported, cardData, error, ctlVars,
                   nAttempts, pc, tag, parsed, outcome, relCalls, cancelled, tornDown,
                   reqCalls, lateAlert, lateSets>>

Next ==
    \/ \E s \in BOOLEAN : IsSupportedResolves(s)
    \/ IsSupportedThrows
    \/ NfcStartResolves
    \/ NfcStartThrows
    \/ StartPressed
    \/ StartRefused
    \/ CancelPressed
    \/ Unmount
    \/ \E i \in Attempts : RequestReturns(i)
    \/ \E i \in Attempts, e \in Thrown : RequestThrows(i, e)
    \/ \E i \in Attempts, t \in {None} \cup {Some(x) : x \in ScanTags} : GetTagReturns(i, t)
    \/ \E i \in Attempts, e \in Thrown : GetTagThrows(i, e)
    \/ \E i \in Attempts, ok \in BOOLEAN : CleanupReturns(i, ok)
    \/ \E ok \in BOOLEAN : ReleaseReturns(ok)

Spec == Init /\ [][Next]_vars

\* ------------------------------------------------------ parser in its place
\* The parser is reached through one place only, the continuation of getTag in
\* startScan.  ParseSpec starts where an attempt awaits getTag (probe done,
\* radio initialised, request resolved) and lets getTag deliver every record
\* of RawTags, or null.
ParseInit ==
    /\ mounted = TRUE
    /\ isScanning = TRUE
    /\ nfcSupported = TRUE
    /\ cardData = None
    /\ error = None
    /\ probePc = "done"
    /\ supported = Some(TRUE)
    /\ nfcStarted = TRUE
    /\ nAttempts = 1
    /\ pc = [i \in Attempts |-> IF i = 1 THEN "waitTag" ELSE "none"]
    /\ tag = [i \in Attempts |-> None]
    /\ parsed = [i \in Attempts |-> None]
    /\ outcome = [i \in Attempts |-> "none"]
    /\ relCalls = [i \in Attempts |-> 0]
    /\ cancelled = [i \in Attempts |-> FALSE]
    /\ tornDown = [i \in Attempts |-> FALSE]
    /\ pendingRel = 0
    /\ held = TRUE
    /\ reqCalls = 1
    /\ lateAlert = FALSE
    /\ lateSets = FALSE
    /\ releaseFailed = FALSE

ParseNext ==
    \/ \E t \in {None} \cup {Some(x) : x \in RawTags} : GetTagReturns(1, t)
    \/ \E ok \in BOOLEAN : CleanupReturns(1, ok)

ParseSpec == ParseInit /\ [][ParseNext]_vars

\* ------------------------------------------------------------------ phase
\* The phase of the lifecycle as the render shows it: nothing once unmounted,
\* the unsupported view, the scanning indicator, the card block, the error
\* block, else the bare Start button.
Phase ==
    IF ~mounted THEN "Uninitialized"
    ELSE IF ~nfcSupported THEN "Unsupported"
    ELSE IF isScanning THEN "Scanning"
    ELSE IF cardData.has THEN "Success"
    ELSE IF error.has THEN "Failed"
    ELSE "Idle"

\* an activation of startScan that has called requestTechnology and whose
\* cleanUpNfc has not returned yet
Outstanding(i) == pc[i] \notin {"none", "done"}

\* ----------------------------------------------------------------- claims

\* C1: exclusive radio access is held (requestTechnology issued, no
\* cancelTechnologyRequest completed since) if and only if the screen shows
\* Scanning (it is mounted and isScanning is true).
C1_AccessIffScanning == held <=> (mounted /\ isScanning)

\* C2: a cancel issued during a Scanning attempt makes exactly one
\* cancelTechnologyRequest call for that attempt, counting cancelScan's call
\* and the call of the attempt's own finally block.
C2_CancelReleasesOnce == \A i \in Attempts : cancelled[i] => relCalls[i] = 1

\* C3: after a cancel, once the cancelled attempt has run to its end and no
\* further command was issued, isScanning is false and error and cardData are
\* null.
C3_CancelEndsIdle ==
    \A i \in Attempts :
        (mounted /\ i = nAttempts /\ cancelled[i] /\ pc[i] = "done")
            => (~isScanning /\ ~error.has /\ ~cardData.has)

\* C4: at most one acquisition is outstanding at any time.
C4_OneAcquisition == Cardinality({i \in Attempts : Outstanding(i)}) <= 1

\* C5: once isSupported() has yielded false, nfcSupported is false and
\* requestTechnology has never been called.
C5_UnsupportedNeverAcquires ==
    (supported = Some(FALSE)) => (reqCalls = 0 /\ (mounted => ~nfcSupported))

\* C6: an unmount during a Scanning attempt makes exactly one
\* cancelTechnologyRequest call for that attempt, counting the cleanup's call
\* and the call of the attempt's own finally block.
C6_TeardownReleasesOnce == \A i \in Attempts : tornDown[i] => relCalls[i] = 1

\* C7: after unmount no step calls setIsScanning, setError or setCardData and
\* no Success / Scan Failed alert is raised.
C7_NothingAfterTeardown == ~lateAlert /\ ~lateSets

\* C8: while the screen is mounted, cardData is non-null exactly in phase
\* Success and error is non-null exactly in phase Failed; while isScanning both
\* are null, and they are never both non-null.
C8_OutcomeMatchesPhase ==
    mounted =>
        /\ cardData.has <=> Phase = "Success"
        /\ error.has <=> Phase = "Failed"
        /\ isScanning => (~cardData.has /\ ~error.has)
        /\ ~(cardData.has /\ error.has)

\* C9: an attempt whose getTag() yielded null ends with a non-null error.
C9_EmptyTagFails ==
    \A i \in Attempts :
        (mounted /\ i = nAttempts /\ outcome[i] = "empty") => error.has

\* C10: a tag whose identifier is absent, empty or shorter than four
\* characters is given the masked number "****".
C10_ShortIdFullyMasked ==
    \A i \in Attempts :
        (parsed[i].has /\ (~tag[i].v.id.has \/ Len(tag[i].v.id.v) < 4))
            => parsed[i].v.cardNumber = StarsOnly

\* C11: a tag whose identifier has four or more characters is given the masked
\* number "**** **** **** " followed by exactly the last four characters of
\* the identifier, and its id field is the identifier unchanged.
C11_LongIdMaskedToLastFour ==
    \A i \in Attempts :
        (parsed[i].has /\ tag[i].v.id.has /\ Len(tag[i].v.id.v) >= 4)
            => LET id == tag[i].v.id.v
                   num == parsed[i].v.cardNumber
               IN /\ Len(num) = 19
                  /\ SubSeq(num, 1, 15) = MaskPrefix
                  /\ \A k \in 1..4 : num[15 + k] = id[Len(id) - 4 + k]
                  /\ parsed[i].v.id = id

\* C11 witness: an identifier longer than four characters, whose first and
\* last four characters differ, has been parsed.
C11_Witness ==
    /\ parsed[1].has
    /\ tag[1].v.id.has
    /\ tag[1].v.id.v = <<"A", "7", "7", "7", "7">>

\* no cancelScan has run since attempt i started, and the screen is mounted
Undisturbed(i) == mounted /\ \A j \in Attempts : j >= i => ~cancelled[j]

\* C12: an attempt that ends by tag arrival or by hardware error, with no
\* cancel and no unmount during it, has exactly one cancelTechnologyRequest
\* call, and the step that makes the call has recorded the outcome (cardData
\* for a tag, error for a failure).
C12_OneReleaseAfterOutcome ==
    [][\A i \in Attempts :
         Undisturbed(i)' =>
            /\ outcome'[i] \in {"tag", "error"} => relCalls'[i] = 1
            /\ relCalls'[i] # relCalls[i] =>
                  /\ outcome'[i] # "none"
                  /\ outcome'[i] = "tag" => (parsed'[i].has /\ cardData' = parsed'[i])
                  /\ outcome'[i] = "error" => error'.has]_vars

\* C12 witness: an undisturbed attempt has read a tag and run to its end with
\* one release call.
C12_Witness ==
    \E i \in Attempts :
        Undisturbed(i) /\ outcome[i] = "tag" /\ pc[i] = "done" /\ relCalls[i] = 1

\* ----------------------------------------------------------------- fairness
\* NfcManager.getTag() and NfcManager.cancelTechnologyRequest() are plain
\* native calls: their promises settle, so an activation of startScan that
\* awaits one of them resumes.  Nothing makes requestTechnology settle.
FairSpec ==
    /\ Spec
    /\ \A i \in Attempts :
          /\ WF_vars(\/ \E t \in {None} \cup {Some(x) : x \in ScanTags} : GetTagReturns(i, t)
                     \/ \E e \in Thrown : GetTagThrows(i, e))
          /\ WF_vars(\E ok \in BOOLEAN : CleanupReturns(i, ok))

\* the requestTechnology call of activation i has settled
Completed(i) == pc[i] \in {"waitTag", "waitCleanup", "done"}

\* cancelTechnologyRequest calls made by the finally block of activation i
FinallyCalls(i) ==
    relCalls[i] - (IF cancelled[i] THEN 1 ELSE 0) - (IF tornDown[i] THEN 1 ELSE 0)

\* C13: once the requestTechnology call of an attempt has settled (resolved,
\* rejected or aborted), the attempt's finally block eventually makes its one
\* cancelTechnologyRequest call, and the step that makes it leaves isScanning
\* false while the screen is mounted.
C13_AcquisitionMatchedByRelease ==
    /\ \A i \in Attempts :
          Completed(i) ~> (pc[i] \in {"waitCleanup", "done"} /\ FinallyCalls(i) = 1)
    /\ [][\A i \in Attempts :
            FinallyCalls(i)' # FinallyCalls(i) => (mounted' => ~isScanning')]_vars

\* C13 witness: an attempt interrupted by the unmount cleanup has settled and
\* run to its end.
C13_Witness == \E i \in Attempts : tornDown[i] /\ pc[i] = "done" /\ FinallyCalls(i) = 1

\* how checkNfcSupport ended: isSupported() threw, it yielded false, or it
\* yielded true and NfcManager.start() threw
ProbeThrew == probePc = "done" /\ supported = None
ProbeSaidNo == probePc = "done" /\ supported = Some(FALSE)
StartThrew == probePc = "done" /\ supported = Some(TRUE) /\ ~nfcStarted

\* C14: when isSupported() throws, or yields true and NfcManager.start() then
\* throws, checkNfcSupport ends with nfcSupported false and the screen shows
\* Unsupported, as when isSupported() yields false.
C14_ProbeFailsClosed ==
    (mounted /\ (ProbeThrew \/ StartThrew \/ ProbeSaidNo))
        => (~nfcSupported /\ Phase = "Unsupported")

\* C14 witness: isSupported() yielded true, NfcManager.start() threw, and the
\* mounted screen shows Unsupported.
C14_Witness == mounted /\ StartThrew /\ ~nfcSupported

\* C15: a cancelTechnologyRequest call that throws changes neither error nor
\* cardData nor isScanning, the activation of startScan that awaited it still
\* runs to its end, and every step that makes a release call on the mounted
\* screen has already set isScanning to false.
C15_ReleaseFailureAbsorbed ==
    [][/\ (releaseFailed' /\ ~releaseFailed) =>
             /\ error' = error
             /\ cardData' = cardData
             /\ isScanning' = isScanning
             /\ \A i \in Attempts : pc'[i] # pc[i] => pc'[i] = "done"
       /\ \A i \in Attempts :
             (relCalls'[i] # relCalls[i] /\ mounted') => ~isScanning']_vars

\* C15 witness: a release call has thrown, and the attempt that read a tag has
\* ended with its card shown, no error, and isScanning false.
C15_Witness ==
    /\ releaseFailed /\ mounted /\ ~isScanning /\ ~error.has
    /\ \E i \in Attempts : pc[i] = "done" /\ outcome[i] = "tag" /\ cardData = parsed[i]

\* C16: requestTechnology is never called before the probe has reported
\* support and NfcManager.start() has completed successfully.
C16_NoAcquisitionBeforeInit == reqCalls > 0 => nfcStarted

\* C17: once nfcSupported is false on the mounted screen it stays false, and
\* no step from such a state, a start command included, calls
\* requestTechnology or begins an attempt; a step that is not the completion
\* of an earlier activation leaves isScanning, error and cardData alone.
C17_UnsupportedIsTerminal ==
    [][(mounted /\ ~nfcSupported) =>
          /\ ~nfcSupported'
          /\ reqCalls' = reqCalls
          /\ nAttempts' = nAttempts
          /\ pc' = pc => (error' = error /\ cardData' = cardData)
          /\ (pc' = pc /\ mounted') => isScanning' = isScanning]_vars

\* C17 witness: the probe has yielded false on the mounted screen while start
\* commands could still begin an attempt, had the guard let them.
C17_Witness == mounted /\ ~nfcSupported /\ ProbeSaidNo /\ nAttempts < MaxAttempts

EmptyTag == [id |-> None, techTypes |-> None, type |-> None]

\* C19: every tag record getTag() delivers, whatever fields it lacks, is parsed
\* into a summary (the attempt takes the tag branch, not the catch block); an
\* absent technology list becomes the empty list, an absent identifier
\* becomes 'N/A' with the masked number '****', an absent type 'Unknown'.
C19_ParserTotal ==
    \A i \in Attempts :
        /\ tag[i].has => (outcome[i] = "tag" /\ parsed[i].has)
        /\ parsed[i].has =>
              LET t == tag[i].v
                  d == parsed[i].v
              IN /\ ~t.techTypes.has => d.techTypes = <<>>
                 /\ t.techTypes.has => d.techTypes = t.techTypes.v
                 /\ ~t.id.has => (d.id = NotAvailable /\ d.cardNumber = StarsOnly)
                 /\ ~t.type.has => d.type = "Unknown"

\* C19 witness: the record with every field absent has been parsed.
C19_Witness == parsed[1].has /\ tag[1].v = EmptyTag

\* s has no repeated entry
NoDuplicates(s) == \A a, b \in 1..Len(s) : s[a] = s[b] => a = b

\* C20: the technology list of a parsed summary has no repeated entry, has the
\* entries of the raw list, and is the raw list itself when that has none.
C20_TechnologiesUnique ==
    \A i \in Attempts :
        parsed[i].has =>
            LET raw == IF tag[i].v.techTypes.has THEN tag[i].v.techTypes.v ELSE <<>>
                out == parsed[i].v.techTypes
            IN /\ NoDuplicates(out)
               /\ {out[k] : k \in 1..Len(out)} = {raw[k] : k \in 1..Len(raw)}
               /\ NoDuplicates(raw) => out = raw

\* activation i awaits requestTechnology or getTag: the radio request it made
\* is pending or granted, and its catch / finally has not run
Pending(i) == pc[i] \in {"waitReq", "waitTag"}

\* C21: while a newer attempt is waiting or holding access, a step in which a
\* cancelled older activation of startScan resumes (its tag branch, catch and
\* finally) leaves isScanning, error and cardData as they were and makes no
\* cancelTechnologyRequest call; so the newest attempt, while it is pending and
\* was not cancelled, keeps isScanning true on the mounted screen.
C21_AttemptsIsolated ==
    [][/\ \A i, j \in Attempts :
             (i < j /\ cancelled[i] /\ Pending(i) /\ ~Pending(i)' /\ Pending(j) /\ mounted)
                 => /\ isScanning' = isScanning
                    /\ error' = error
                    /\ cardData' = cardData
                    /\ relCalls'[i] = relCalls[i]
       /\ \A j \in Attempts :
             (mounted' /\ j = nAttempts' /\ Pending(j)' /\ ~cancelled'[j])
                 => isScanning']_vars

====
